---- MODULE Spec2Model ----
(***************************************************************************)
(* SentinelPi-Bot: the per-camera monitoring pipeline.                     *)
(*                                                                         *)
(* Three programs share the design:                                        *)
(*   sentinel_pi_bot.py       dynamic cameras, stop events, alerts queued  *)
(*                            onto the asyncio event loop      (Spec)     *)
(*   testing_security_bot.py  fixed cameras, face + motion detection,      *)
(*   secure_bot.py            alerts sent from the capture thread (SpecCam)*)
(*   the frame buffer         collections.deque(maxlen=...)    (SpecBuf)  *)
(*                                                                         *)
(* Time passes in whole seconds (Tick).  Instead of the value of           *)
(* time.time() the model keeps what the code compares it with: the         *)
(* seconds left of a time.sleep or a join, and the seconds since a         *)
(* timestamp was taken (counted up to one past the limit it is compared    *)
(* with).  A capture thread's steps that do no I/O and no sleeping take no *)
(* time (time cannot advance past them); opening a source and reading a    *)
(* frame block for as long as the source takes.                            *)
(***************************************************************************)
EXTENDS Integers, Sequences, FiniteSets, TLC

VARIABLES
    \* ---- sentinel_pi_bot.py ----
    running_threads,    \* thread_key -> thread id (the (thread, stop_event) pair)
    frame_queues,       \* thread_key -> deque of frames
    threads,            \* thread id -> the thread object and its loop's locals
    joining,            \* the stop_monitoring_thread call blocked in join, or NoJoin
    AUTHORIZED_CHAT_ID, \* None or the authorized chat id
    files,              \* file path -> the frame written there, or NoFile
    loop_tasks,         \* send_alert_photo coroutines scheduled on main_event_loop
    \* ---- the frame buffer alone ----
    ring,               \* a deque(maxlen=ring_cap)
    ring_cap,           \* its maxlen
    ring_n,             \* history: number of pushes so far (frame i is the i-th pushed)
    \* ---- testing_security_bot.py and secure_bot.py (one camera) ----
    program,            \* which of the two programs runs
    cap_pc,             \* where the capture thread is blocked
    cap_sleep,          \* seconds left of the time.sleep it is in
    cap_cur,            \* the frame being processed while an alert is sent
    cam_n,              \* frames read so far
    cam_queue,          \* frame_queues[cam_name]
    monitoring_enabled, \* monitoring_enabled[cam_name]
    since_face,         \* time.time() - last_face_detection_time[cam_name]
    since_motion,       \* time.time() - last_motion_detection_time[cam_name]
    background_frames,  \* background_frames[cam_name]
    SETTINGS,
    cam_files,          \* file path -> what was written there, or NoFile
    timers,             \* the threading.Timer threads that have not ended
    clock,              \* int(time.time()) % 5
    \* ---- sentinel_pi_bot.py: the command handlers ----
    main_pc,            \* where main() is: loading, polling, or ended by an error
    yaml_file,          \* USER_DATA_FILE on disk
    reply               \* the last answer of start, list_cameras or record_clip

\* sentinel_pi_bot.py's state but for the authorized chat, which all three
\* programs have
registryVars == <<running_threads, frame_queues, threads, joining, files,
                  loop_tasks>>
sentinelVars == <<registryVars, AUTHORIZED_CHAT_ID>>
bufVars == <<ring, ring_cap, ring_n>>
capVars == <<cap_pc, cap_sleep, cap_cur, cam_n>>
detVars == <<since_face, since_motion, background_frames>>
camVars == <<program, capVars, cam_queue, monitoring_enabled, detVars,
             SETTINGS, cam_files, timers, clock>>
botVars == <<main_pc, yaml_file, reply>>
vars == <<sentinelVars, bufVars, camVars, botVars>>

---------------------------------------------------------------------------
(* Program constants *)

FPS == 20
BUFFER_SECONDS == 60
BUFFER_SECONDS_LEGACY == 30
\* sentinel_pi_bot.py:33
VIDEO_BUFFER_SIZE == BUFFER_SECONDS * FPS
\* testing_security_bot.py:35, secure_bot.py:38
VIDEO_BUFFER_SIZE_LEGACY == BUFFER_SECONDS_LEGACY * FPS
JOIN_TIMEOUT == 5
OPEN_RETRY_SLEEP == 20
READ_RETRY_SLEEP == 2
FACE_COOLDOWN == 5
\* testing_security_bot.py and secure_bot.py
OPEN_RETRY_SLEEP_CAM == 10
REOPEN_SLEEP == 2
DISABLED_SLEEP == 1
FACE_COOLDOWN_CAM == 30
CLIP_DELAY == 30
MOTION_COOLDOWN == 10
MOTION_THRESHOLD == 5000
REFRESH_PERIOD == 5

(* Bounds of the model *)

\* threads ever created
MaxThreads == 2
\* frames a thread reads
MaxFrames == 1
\* coroutines pending on the event loop
MaxTasks == 1
\* pushes beyond the larger capacity in SpecBuf
MaxOverflow == 50
\* frames the fixed camera's thread reads
MaxCamFrames == 2
MaxMotionFrames == 3
\* frames the recorded camera's thread has read in SpecClip
MaxClipFrames == 1250
\* Timer threads alive at a time
MaxTimers == 1
\* seconds the fixed camera's capture thread waits for a delivery at most
MaxSendSeconds == 1
\* frames read by a thread, and alerts pending at once, in SpecAlert
MaxAlertFrames == 2
MaxAlerts == 2

None == "None"
\* AUTHORIZED_CHAT_ID = None; "if AUTHORIZED_CHAT_ID:" is false for it
NoChat == 0
NoJoin == [key |-> <<>>, tid |-> 0, left |-> 0]
NoFile == <<>>
NoCur == [frame |-> 0]
\* os.path.exists(USER_DATA_FILE) is false
\* camera urls (context.args[0] of /add_camera)
Urls == {"rtsp://a", "rtsp://b"}
DefaultUrl == "rtsp://a"
\* a registry without cameras
NoCameras == <<>>
MissingFile == [st |-> "missing", data |-> NoCameras]
NoReply == [text |-> "none"]

Chats == {1, 2}
Names == {"cam"}
\* thread_key = f"{chat_id}-{name}"
ThreadKey(chat_id, name) == <<chat_id, name>>
Keys == {ThreadKey(c, n) : c \in Chats, n \in Names}

\* f'{thread_key}_record.mp4'
RecordPath(k) == <<k[1], k[2], "record">>

---------------------------------------------------------------------------
(* collections.deque(maxlen=...) *)

\* a plausible slip: a full buffer refuses the new frame instead of evicting
DequeAppendKeepOldest(q, x, maxlen) ==
    IF Len(q) < maxlen THEN Append(q, x) ELSE q

\* deque.append on a deque with maxlen: the oldest element is discarded
\* when the deque is full
DequeAppend(q, x, maxlen) ==
    IF Len(q) < maxlen THEN Append(q, x) ELSE Append(Tail(q), x)

Min(a, b) == IF a <= b THEN a ELSE b

---------------------------------------------------------------------------
(* sentinel_pi_bot.py: threads *)

\* threading.Thread.is_alive(): started and its target has not returned or raised
IsAlive(tid) == threads[tid].pc \notin {"done", "crashed"}

Tids == 1..Len(threads)

\* a plausible slip: the detection timestamp kept per key outside the loop
\* (as the other two programs do) and so inherited by the next thread
NewThreadStale(k) ==
    LET old == {t \in Tids : threads[t].key = k}
        last == CHOOSE t \in old : \A u \in old : u <= t
    IN [key |-> k, pc |-> "open", stop |-> FALSE,
        detected |-> IF old = {} THEN FALSE ELSE threads[last].detected,
        since_detection |-> IF old = {} THEN 0 ELSE threads[last].since_detection,
        sleep |-> 0, n |-> 0, exc |-> None, url |-> DefaultUrl]

\* the thread object created by start_monitoring_thread and the locals of
\* video_capture_loop when it first blocks, in cv2.VideoCapture (lines
\* 219-221: the stop event is new, so the outer test passes).
\*   stop               stop_event.is_set()
\*   detected           last_detection_time # 0 (line 219 sets it to 0)
\*   since_detection    time.time() - last_detection_time when detected
\*   sleep              seconds left of the time.sleep the thread is in
\*   n                  frames read so far
\*   exc                the exception that ended the thread, if one did
\*   url                cam_url, the source the loop opens
NewThread(k) ==
    [key |-> k, pc |-> "open", stop |-> FALSE,
     detected |-> FALSE, since_detection |-> 0,
     sleep |-> 0, n |-> 0, exc |-> None, url |-> DefaultUrl]

\* stop_event.is_set()
StopIsSet(tid) == threads[tid].stop

Registered(k) == k \in DOMAIN running_threads

\* start_monitoring_thread's guard:
\*   thread_key in running_threads and running_threads[thread_key][0].is_alive()
LivePipeline(k) == Registered(k) /\ IsAlive(running_threads[k])

\* start_monitoring_thread(cam_name, cam_url, thread_key), lines 197-204
start_monitoring_thread_from(k, url) ==
    /\ joining = NoJoin
    /\ IF LivePipeline(k)
       THEN UNCHANGED <<running_threads, frame_queues, threads>>
       ELSE /\ Len(threads) < MaxThreads
            /\ threads' = Append(threads, [NewThread(k) EXCEPT !.url = url])
            /\ running_threads' = [x \in DOMAIN running_threads \cup {k} |->
                                      IF x = k THEN Len(threads) + 1 ELSE running_threads[x]]
            /\ frame_queues' = [x \in DOMAIN frame_queues \cup {k} |->
                                      IF x = k THEN <<>> ELSE frame_queues[x]]
    /\ UNCHANGED <<joining, AUTHORIZED_CHAT_ID, files, loop_tasks>>

\* a plausible slip: no liveness guard, every call starts a thread
start_monitoring_thread_unguarded(k) ==
    /\ joining = NoJoin
    /\ Len(threads) < MaxThreads
    /\ threads' = Append(threads, NewThread(k))
    /\ running_threads' = [x \in DOMAIN running_threads \cup {k} |->
                              IF x = k THEN Len(threads) + 1 ELSE running_threads[x]]
    /\ frame_queues' = [x \in DOMAIN frame_queues \cup {k} |->
                              IF x = k THEN <<>> ELSE frame_queues[x]]
    /\ UNCHANGED <<joining, AUTHORIZED_CHAT_ID, files, loop_tasks>>

\* start_monitoring_thread(cam_name, cam_url, thread_key) where the url
\* does not matter
start_monitoring_thread(k) ==
    /\ joining = NoJoin
    /\ IF LivePipeline(k)
       THEN UNCHANGED <<running_threads, frame_queues, threads>>
       ELSE /\ Len(threads) < MaxThreads
            /\ threads' = Append(threads, NewThread(k))
            /\ running_threads' = [x \in DOMAIN running_threads \cup {k} |->
                                      IF x = k THEN Len(threads) + 1 ELSE running_threads[x]]
            /\ frame_queues' = [x \in DOMAIN frame_queues \cup {k} |->
                                      IF x = k THEN <<>> ELSE frame_queues[x]]
    /\ UNCHANGED <<joining, AUTHORIZED_CHAT_ID, files, loop_tasks>>

\* stop_monitoring_thread(thread_key), up to the call of thread.join:
\* an absent key is left alone; otherwise the event is set and the caller
\* (the event loop's thread) blocks in join(timeout=5)
stop_monitoring_thread_begin(k) ==
    /\ joining = NoJoin
    /\ IF Registered(k)
       THEN LET tid == running_threads[k] IN
            /\ threads' = [threads EXCEPT ![tid].stop = TRUE]
            /\ joining' = [key |-> k, tid |-> tid, left |-> JOIN_TIMEOUT]
       ELSE UNCHANGED <<threads, joining>>
    /\ UNCHANGED <<running_threads, frame_queues, AUTHORIZED_CHAT_ID, files,
                   loop_tasks>>

\* thread.join(timeout=5) has returned: the thread ended or 5 s went by
JoinReturns ==
    /\ joining # NoJoin
    /\ \/ ~IsAlive(joining.tid)
       \/ joining.left = 0

\* a plausible slip: the frame buffer of a stopped pipeline is left behind
stop_monitoring_thread_end_keeps_buffer ==
    /\ JoinReturns
    /\ running_threads' = [x \in DOMAIN running_threads \ {joining.key} |->
                              running_threads[x]]
    /\ joining' = NoJoin
    /\ UNCHANGED <<frame_queues, threads, AUTHORIZED_CHAT_ID, files, loop_tasks>>

\* stop_monitoring_thread after join: the registry entry and the frame
\* buffer are deleted, whether or not the thread has ended
stop_monitoring_thread_end ==
    /\ JoinReturns
    /\ running_threads' = [x \in DOMAIN running_threads \ {joining.key} |->
                              running_threads[x]]
    /\ frame_queues' = [x \in DOMAIN frame_queues \ {joining.key} |->
                              frame_queues[x]]
    /\ joining' = NoJoin
    /\ UNCHANGED <<threads, AUTHORIZED_CHAT_ID, files, loop_tasks>>

---------------------------------------------------------------------------
(* sentinel_pi_bot.py: video_capture_loop.  A thread is either blocked
   (opening the source, reading a frame, sleeping) or ended; what it does
   between two blocking calls takes no time and is one action. *)

\* the locals of a thread that has ended are gone; the model keeps what
\* is said about it afterwards (its key, how it ended, whether it had
\* detected a face)
Ended(rec) ==
    [rec EXCEPT !.since_detection = 0, !.sleep = 0, !.n = 0]

ThreadStep(t, rec) ==
    threads' = [threads EXCEPT ![t] =
                   IF rec.pc \in {"done", "crashed"} THEN Ended(rec) ELSE rec]

\* line 220, "while not stop_event.is_set()" of the outer loop: on to
\* cv2.VideoCapture (line 221) or to the end of the function (line 257)
OuterTest(t) == IF StopIsSet(t) THEN "done" ELSE "open"

\* line 227, "while not stop_event.is_set()" of the inner loop: on to
\* cap.read() (line 228), or cap.release() (line 256) and the outer test
InnerTest(t) == IF StopIsSet(t) THEN OuterTest(t) ELSE "read"

\* lines 221-227: cv2.VideoCapture(cam_url) returns; a source that did not
\* open starts time.sleep(20), one that did enters the inner loop
LoopOpen(t) ==
    /\ threads[t].pc = "open"
    /\ \E opened \in BOOLEAN :
         ThreadStep(t, IF opened
                       THEN [threads[t] EXCEPT !.pc = InnerTest(t)]
                       ELSE [threads[t] EXCEPT !.pc = "sleep_open",
                                               !.sleep = OPEN_RETRY_SLEEP])
    /\ UNCHANGED <<running_threads, frame_queues, joining,
                   AUTHORIZED_CHAT_ID, files, loop_tasks>>

\* lines 224-225 and 220: time.sleep(20) returns, "continue"
LoopOpenRetry(t) ==
    /\ threads[t].pc = "sleep_open"
    /\ threads[t].sleep = 0
    /\ ThreadStep(t, [threads[t] EXCEPT !.pc = OuterTest(t)])
    /\ UNCHANGED <<running_threads, frame_queues, joining,
                   AUTHORIZED_CHAT_ID, files, loop_tasks>>

\* lines 228-234: cap.read() returns no frame and time.sleep(2) starts
LoopReadFails(t) ==
    /\ threads[t].pc = "read"
    /\ ThreadStep(t, [threads[t] EXCEPT !.pc = "sleep_read",
                                        !.sleep = READ_RETRY_SLEEP])
    /\ UNCHANGED <<running_threads, frame_queues, joining,
                   AUTHORIZED_CHAT_ID, files, loop_tasks>>

\* a plausible slip: a stream that ended ends the thread ("return" for
\* "break")
LoopReadRetryGivesUp(t) ==
    /\ threads[t].pc = "sleep_read"
    /\ threads[t].sleep = 0
    /\ ThreadStep(t, [threads[t] EXCEPT !.pc = "done"])
    /\ UNCHANGED <<running_threads, frame_queues, joining,
                   AUTHORIZED_CHAT_ID, files, loop_tasks>>

\* lines 234-235, 256 and 220: time.sleep(2) returns, "break", cap.release()
LoopReadRetry(t) ==
    /\ threads[t].pc = "sleep_read"
    /\ threads[t].sleep = 0
    /\ ThreadStep(t, [threads[t] EXCEPT !.pc = OuterTest(t)])
    /\ UNCHANGED <<running_threads, frame_queues, joining,
                   AUTHORIZED_CHAT_ID, files, loop_tasks>>

\* the frame that thread t reads next
NextFrame(t) == <<t, threads[t].n + 1>>

\* f'{thread_key}_detected.jpg': one path per thread key
DetectedPath(k) == k

\* line 241: current_time - last_detection_time > 5
\* (with last_detection_time = 0 the difference is time.time() itself)
CooldownOver(t) ==
    \/ ~threads[t].detected
    \/ threads[t].since_detection > FACE_COOLDOWN

\* a plausible slip: one buffer for all cameras (every registered key's
\* deque receives the frame)
PushAndLoopShared(t, rec) ==
    LET k == threads[t].key IN
    IF k \in DOMAIN frame_queues
    THEN /\ frame_queues' = [x \in DOMAIN frame_queues |->
                                DequeAppend(frame_queues[x], NextFrame(t),
                                            VIDEO_BUFFER_SIZE)]
         /\ ThreadStep(t, [rec EXCEPT !.pc = InnerTest(t), !.n = @ + 1])
    ELSE /\ ThreadStep(t, [rec EXCEPT !.pc = "crashed", !.exc = "KeyError"])
         /\ UNCHANGED frame_queues

\* line 253: frame_queues[thread_key].append(frame), then the inner test;
\* a KeyError when stop_monitoring_thread has deleted the key ends the
\* thread.  rec is the thread after the detection step.
PushAndLoop(t, rec) ==
    LET k == threads[t].key IN
    IF k \in DOMAIN frame_queues
    THEN /\ frame_queues' = [frame_queues EXCEPT ![k] =
                                DequeAppend(@, NextFrame(t), VIDEO_BUFFER_SIZE)]
         /\ ThreadStep(t, [rec EXCEPT !.pc = InnerTest(t), !.n = @ + 1])
    ELSE /\ ThreadStep(t, [rec EXCEPT !.pc = "crashed", !.exc = "KeyError"])
         /\ UNCHANGED frame_queues

\* lines 228-253: cap.read() returns a frame; within the cooldown the
\* detector is not called, beyond it it is called and finds no face
LoopReadNoFaceBounded(t, max) ==
    /\ threads[t].pc = "read"
    /\ threads[t].n < max
    /\ PushAndLoop(t, threads[t])
    /\ UNCHANGED <<running_threads, joining, AUTHORIZED_CHAT_ID, files, loop_tasks>>

LoopReadNoFace(t) == LoopReadNoFaceBounded(t, MaxFrames)

\* lines 228-253: cap.read() returns a frame and the detector finds a
\* face: the timestamp is reset, the frame is written to the key's file and
\* send_alert_photo is scheduled on the event loop
LoopReadFaceBounded(t, max, tasks) ==
    /\ threads[t].pc = "read"
    /\ threads[t].n < max
    /\ CooldownOver(t)
    /\ Len(loop_tasks) < tasks
    /\ files' = [files EXCEPT ![DetectedPath(threads[t].key)] = NextFrame(t)]
    /\ loop_tasks' = Append(loop_tasks,
                            [path |-> DetectedPath(threads[t].key),
                             frame |-> NextFrame(t),
                             st |-> "queued", photo |-> NoFile])
    /\ PushAndLoop(t, [threads[t] EXCEPT !.detected = TRUE, !.since_detection = 0])
    /\ UNCHANGED <<running_threads, joining, AUTHORIZED_CHAT_ID>>

LoopReadFace(t) == LoopReadFaceBounded(t, MaxFrames, MaxTasks)

\* lines 228-242: cap.read() returns a frame and face_detector.detect(frame)
\* raises; nothing in the loop catches it, so the thread's target ends with
\* the exception, before the frame is pushed
LoopReadDetectorRaises(t) ==
    /\ threads[t].pc = "read"
    /\ threads[t].n < MaxFrames
    /\ CooldownOver(t)
    /\ ThreadStep(t, [threads[t] EXCEPT !.pc = "crashed", !.exc = "detect"])
    /\ UNCHANGED <<running_threads, frame_queues, joining,
                   AUTHORIZED_CHAT_ID, files, loop_tasks>>

video_capture_loop(t) ==
    \/ LoopOpen(t)
    \/ LoopOpenRetry(t)
    \/ LoopReadFails(t)
    \/ LoopReadRetry(t)
    \/ LoopReadNoFace(t)
    \/ LoopReadFace(t)
    \/ LoopReadDetectorRaises(t)

---------------------------------------------------------------------------
(* sentinel_pi_bot.py: the event loop (one thread: handlers and coroutines
   run one at a time, and not at all while stop_monitoring_thread joins) *)

RemoveAt(q, i) == [j \in 1..(Len(q) - 1) |-> IF j < i THEN q[j] ELSE q[j + 1]]

Queued == {i \in 1..Len(loop_tasks) : loop_tasks[i].st = "queued"}

\* a plausible slip: the branch without an authorized chat only prints
send_alert_photo_begin_keeps_file ==
    /\ joining = NoJoin
    /\ Queued # {}
    /\ LET i == CHOOSE x \in Queued : \A y \in Queued : x <= y
           path == loop_tasks[i].path
       IN IF AUTHORIZED_CHAT_ID # NoChat /\ files[path] # NoFile
          THEN /\ loop_tasks' = [loop_tasks EXCEPT ![i].st = "sending",
                                                   ![i].photo = files[path]]
               /\ UNCHANGED files
          ELSE /\ loop_tasks' = RemoveAt(loop_tasks, i)
               /\ UNCHANGED files
    /\ UNCHANGED <<running_threads, frame_queues, threads, joining,
                   AUTHORIZED_CHAT_ID>>

\* send_alert_photo(file_path, caption) up to its await, lines 261-263 and
\* 269-271: with no authorized chat the file is removed; otherwise the file
\* is opened and read for bot.send_photo (a missing file raises, which the
\* except clause swallows before any request is made)
send_alert_photo_begin ==
    /\ joining = NoJoin
    /\ Queued # {}
    /\ LET i == CHOOSE x \in Queued : \A y \in Queued : x <= y
           path == loop_tasks[i].path
       IN IF AUTHORIZED_CHAT_ID # NoChat /\ files[path] # NoFile
          THEN /\ loop_tasks' = [loop_tasks EXCEPT ![i].st = "sending",
                                                   ![i].photo = files[path]]
               /\ UNCHANGED files
          ELSE /\ loop_tasks' = RemoveAt(loop_tasks, i)
               /\ files' = [files EXCEPT ![path] = NoFile]
    /\ UNCHANGED <<running_threads, frame_queues, threads, joining,
                   AUTHORIZED_CHAT_ID>>

\* send_alert_photo from the await on, lines 263-268: the request succeeds
\* or raises; either way the finally clause removes the file if it exists
send_alert_photo_end(i) ==
    /\ joining = NoJoin
    /\ i \in 1..Len(loop_tasks)
    /\ loop_tasks[i].st = "sending"
    /\ loop_tasks' = RemoveAt(loop_tasks, i)
    /\ files' = [files EXCEPT ![loop_tasks[i].path] = NoFile]
    /\ UNCHANGED <<running_threads, frame_queues, threads, joining,
                   AUTHORIZED_CHAT_ID>>

---------------------------------------------------------------------------
(* Time *)

\* a thread whose sleep is over
Urgent(t) ==
    threads[t].pc \in {"sleep_open", "sleep_read"} /\ threads[t].sleep = 0

UpTo(x, limit) == IF x > limit THEN x ELSE x + 1

\* one second passes for thread record r
Older(r) ==
    [r EXCEPT !.sleep = IF @ > 0 THEN @ - 1 ELSE 0,
              !.since_detection = IF r.detected /\ r.pc \notin {"done", "crashed"}
                                  THEN UpTo(@, FACE_COOLDOWN) ELSE @]

\* one second passes
Tick ==
    /\ \A t \in Tids : ~Urgent(t)
    /\ ~JoinReturns
    /\ threads' = [t \in Tids |-> Older(threads[t])]
    /\ joining' = IF joining = NoJoin THEN NoJoin
                  ELSE [joining EXCEPT !.left = @ - 1]
    /\ UNCHANGED <<running_threads, frame_queues,
                   AUTHORIZED_CHAT_ID, files, loop_tasks>>

---------------------------------------------------------------------------
(* The frame buffer alone: frames 1, 2, 3, ... pushed onto one deque *)

RingInit ==
    /\ ring = <<>>
    /\ ring_n = 0
    /\ ring_cap \in {VIDEO_BUFFER_SIZE_LEGACY, VIDEO_BUFFER_SIZE}

\* frame_queues[...].append(frame)
RingPush ==
    /\ ring_n < VIDEO_BUFFER_SIZE + MaxOverflow
    /\ ring_n' = ring_n + 1
    /\ ring' = DequeAppend(ring, ring_n + 1, ring_cap)
    /\ UNCHANGED ring_cap

---------------------------------------------------------------------------
(* testing_security_bot.py and secure_bot.py: one fixed camera, a capture
   thread that sends its alerts itself (asyncio.run blocks it for as long
   as the delivery takes) and a threading.Timer thread per face alert.
   Line numbers are those of testing_security_bot.py unless secure_bot.py
   is named; the time.sleep(1 / FPS) of test mode is below the second. *)

Programs == {"testing", "secure"}

\* the chats that send /start
CamChats == {1}

\* f'{cam_name}_face_detected.jpg', f'{cam_name}_motion_detected.jpg' and
\* f'{cam_name}_post_detection.mp4'
FacePath == "face_detected"
MotionPath == "motion_detected"
VideoPath == "post_detection"
CamPaths == {FacePath, MotionPath, VideoPath}

\* background_frames[name] = None
NoBackground == -1

\* the blurred grey image of a frame as far as the motion test looks at
\* it: a number, thresh.sum() of two images being their difference
Lums == {0, MOTION_THRESHOLD + 1000}
Delta(a, b) == IF a > b THEN a - b ELSE b - a

\* "if AUTHORIZED_CHAT_ID:"
Authorized == AUTHORIZED_CHAT_ID # NoChat

\* start(update, context), lines 57-70 (secure_bot.py 64-81)
start_cam(chat_id) ==
    /\ AUTHORIZED_CHAT_ID' = IF AUTHORIZED_CHAT_ID = NoChat THEN chat_id
                             ELSE AUTHORIZED_CHAT_ID
    /\ UNCHANGED camVars

\* setMonitoringEnabled(identity, bool) of the control surface: the command
\* that writes monitoring_enabled[cam_name]
setMonitoringEnabled(enabled) ==
    /\ monitoring_enabled' = enabled
    /\ UNCHANGED <<program, capVars, cam_queue, detVars, SETTINGS, cam_files,
                   timers, clock, AUTHORIZED_CHAT_ID>>

\* send_alert_photo and send_alert_video, lines 143-168, after bot.send_*
\* has returned (ok) or raised: the finally clause removes the file
send_alert_returns(fs, path, ok) == [fs EXCEPT ![path] = NoFile]

\* secure_bot.py send_telegram_alert_photo and send_telegram_alert_video,
\* lines 88-111, after bot.send_* has returned or raised: os.remove is the
\* statement that follows the await inside the try block
send_telegram_alert_returns(fs, path, ok) ==
    IF ok THEN [fs EXCEPT ![path] = NoFile] ELSE fs

SendReturns(fs, path, ok) ==
    IF program = "testing" THEN send_alert_returns(fs, path, ok)
    ELSE send_telegram_alert_returns(fs, path, ok)

\* the else branch of the four functions: no chat is authorized, nothing is
\* sent and the file is removed
SendRefused(fs, path) == [fs EXCEPT ![path] = NoFile]

\* what only the capture thread's position changes
capRest == <<program, cam_queue, monitoring_enabled, detVars, SETTINGS,
             cam_files, timers, clock, AUTHORIZED_CHAT_ID>>

\* lines 196-203: cv2.VideoCapture(video_source) returns
CamOpen ==
    /\ cap_pc = "open"
    /\ \E opened \in BOOLEAN :
         IF opened THEN cap_pc' = "read" /\ cap_sleep' = 0
         ELSE cap_pc' = "sleep_open" /\ cap_sleep' = OPEN_RETRY_SLEEP_CAM
    /\ UNCHANGED <<cap_cur, cam_n, capRest>>

\* lines 199-200: time.sleep(10) returns, "continue"
CamOpenRetry ==
    /\ cap_pc = "sleep_open"
    /\ cap_sleep = 0
    /\ cap_pc' = "open"
    /\ UNCHANGED <<cap_sleep, cap_cur, cam_n, capRest>>

\* lines 204-210 and 252-253: cap.read() returns no frame, "break",
\* cap.release() and time.sleep(2); secure_bot.py (lines 128-131, 174)
\* reopens at once
CamReadFails ==
    /\ cap_pc = "read"
    /\ IF program = "testing"
       THEN cap_pc' = "sleep_reopen" /\ cap_sleep' = REOPEN_SLEEP
       ELSE cap_pc' = "open" /\ cap_sleep' = 0
    /\ UNCHANGED <<cap_cur, cam_n, capRest>>

\* line 253: time.sleep(2) returns
CamReopen ==
    /\ cap_pc = "sleep_reopen"
    /\ cap_sleep = 0
    /\ cap_pc' = "open"
    /\ UNCHANGED <<cap_sleep, cap_cur, cam_n, capRest>>

\* a plausible slip: the frame pushed before the flag is looked at
CamReadDisabledPushes ==
    /\ cap_pc = "read"
    /\ ~monitoring_enabled
    /\ cam_n < MaxCamFrames
    /\ cam_n' = cam_n + 1
    /\ cam_queue' = DequeAppend(cam_queue, cam_n + 1, VIDEO_BUFFER_SIZE_LEGACY)
    /\ cap_pc' = "sleep_disabled"
    /\ cap_sleep' = DISABLED_SLEEP
    /\ UNCHANGED <<cap_cur, program, monitoring_enabled, since_face,
                   since_motion, background_frames, SETTINGS, cam_files,
                   timers, clock, AUTHORIZED_CHAT_ID>>

\* lines 204-214: cap.read() returns a frame while monitoring is disabled:
\* time.sleep(1) and "continue", before the frame is resized or pushed
CamReadDisabled ==
    /\ cap_pc = "read"
    /\ ~monitoring_enabled
    /\ cam_n < MaxCamFrames
    /\ cam_n' = cam_n + 1
    /\ cap_pc' = "sleep_disabled"
    /\ cap_sleep' = DISABLED_SLEEP
    /\ UNCHANGED <<cap_cur, program, cam_queue, monitoring_enabled, since_face,
                   since_motion, background_frames, SETTINGS, cam_files,
                   timers, clock, AUTHORIZED_CHAT_ID>>

\* lines 213-214: time.sleep(1) returns, "continue"
CamDisabledWake ==
    /\ cap_pc = "sleep_disabled"
    /\ cap_sleep = 0
    /\ cap_pc' = "read"
    /\ UNCHANGED <<cap_sleep, cap_cur, cam_n, capRest>>

\* the Timer thread started at line 230, asleep for 30 s
\* a plausible slip: the Timer's interval left at 0
NewTimerNoDelay == [pc |-> "wait", left |-> 0, clip |-> <<>>]

\* line 230: threading.Timer(30.0, save_and_send_post_detection_video, ...)
NewTimer == [pc |-> "wait", left |-> CLIP_DELAY, clip |-> <<>>]

\* a plausible slip: the motion test has no cooldown
MotionDueAlways == TRUE

\* line 233: current_time - last_motion_detection_time.get(cam_name, 0) > 10
MotionDue == since_motion > MOTION_COOLDOWN

\* a plausible slip: the face test uses the motion cooldown
FaceDueShortCooldown == since_face > MOTION_COOLDOWN

\* line 222: current_time - last_face_detection_time.get(cam_name, 0) > 30
FaceDue == since_face > FACE_COOLDOWN_CAM

\* lines 232-250, the motion detection of the frame in cur and the way
\* back to cap.read(), up to the call that sends a motion alert.  fs are
\* the files after the face detection.
\*   cur.motion_due   current_time - last_motion_detection_time > 10
\*   cur.refresh      int(current_time) % 5 == 0
\*   cur.elapsed      seconds since current_time was taken (line 219)
MotionPart(cur, fs) ==
    LET due == SETTINGS.motion_detection /\ cur.motion_due
        seed == due /\ background_frames = NoBackground
        hit == /\ due
               /\ ~seed
               /\ Delta(background_frames, cur.lum) > SETTINGS.motion_threshold
    IN /\ since_motion' = IF hit THEN cur.elapsed ELSE since_motion
       /\ IF hit /\ Authorized
          THEN /\ cap_pc' = "send_motion"
               /\ cap_cur' = cur
               /\ cam_files' = [fs EXCEPT ![MotionPath] = <<cur.frame>>]
               /\ UNCHANGED background_frames
          ELSE /\ cap_pc' = "read"
               /\ cap_cur' = NoCur
               /\ cam_files' = IF hit THEN SendRefused(fs, MotionPath) ELSE fs
               /\ background_frames' =
                     IF seed \/ (due /\ cur.refresh) THEN cur.lum
                     ELSE background_frames

\* lines 204-230: cap.read() returns a frame while monitoring is enabled.
\* The frame is pushed and current_time taken; beyond the face cooldown the
\* classifier runs: an error raised by it ends the thread, a face resets
\* the timestamp, writes the frame and calls send_alert_photo, which
\* blocks the thread when a chat is authorized.
CamReadFrameBounded(lum, faces, max) ==
    /\ cap_pc = "read"
    /\ monitoring_enabled
    /\ cam_n < max
    /\ LET frame == cam_n + 1
           cur == [frame |-> frame, lum |-> lum,
                   motion_due |-> MotionDue,
                   refresh |-> clock = 0, elapsed |-> 0]
       IN /\ cam_n' = frame
          /\ cam_queue' = DequeAppend(cam_queue, frame, VIDEO_BUFFER_SIZE_LEGACY)
          /\ IF FaceDue /\ faces = "error"
             THEN /\ cap_pc' = "crashed"
                  /\ UNCHANGED <<cap_cur, since_face, since_motion,
                                 background_frames, cam_files, timers>>
             ELSE IF FaceDue /\ faces = "face"
             THEN /\ Len(timers) < MaxTimers
                  /\ since_face' = 0
                  /\ IF Authorized
                     THEN /\ cap_pc' = "send_face"
                          /\ cap_cur' = cur
                          /\ cam_files' = [cam_files EXCEPT ![FacePath] = <<frame>>]
                          /\ UNCHANGED <<since_motion, background_frames, timers>>
                     ELSE /\ timers' = Append(timers, NewTimer)
                          /\ MotionPart(cur, SendRefused(cam_files, FacePath))
             ELSE /\ MotionPart(cur, cam_files)
                  /\ UNCHANGED <<since_face, timers>>
    /\ UNCHANGED <<cap_sleep, program, monitoring_enabled, SETTINGS, clock,
                   AUTHORIZED_CHAT_ID>>

CamReadFrameWith(lum, faces) == CamReadFrameBounded(lum, faces, MaxCamFrames)

\* what the frame shows (lum) and what the classifier would say of it
Classifications == {"none", "face", "error"}

CamReadFrame == \E lum \in Lums, faces \in Classifications : CamReadFrameWith(lum, faces)

\* lines 229-250: the send_alert_photo of a face alert returns; the Timer
\* is started and the motion detection of the same frame follows
CamSendFaceReturns ==
    /\ cap_pc = "send_face"
    /\ timers' = Append(timers, NewTimer)
    /\ \E ok \in BOOLEAN :
         MotionPart(cap_cur, SendReturns(cam_files, FacePath, ok))
    /\ UNCHANGED <<cap_sleep, cam_n, cam_queue, since_face, program,
                   monitoring_enabled, SETTINGS, clock, AUTHORIZED_CHAT_ID>>

\* lines 246-250: the send_alert_photo of a motion alert returns
CamSendMotionReturns ==
    /\ cap_pc = "send_motion"
    /\ \E ok \in BOOLEAN :
         cam_files' = SendReturns(cam_files, MotionPath, ok)
    /\ background_frames' = IF cap_cur.refresh THEN cap_cur.lum
                            ELSE background_frames
    /\ cap_pc' = "read"
    /\ cap_cur' = NoCur
    /\ UNCHANGED <<cap_sleep, cam_n, cam_queue, since_face, since_motion,
                   timers, program, monitoring_enabled, SETTINGS,
                   clock, AUTHORIZED_CHAT_ID>>

video_capture_loop_cam ==
    \/ CamOpen
    \/ CamOpenRetry
    \/ CamReadFails
    \/ CamReopen
    \/ CamReadDisabled
    \/ CamDisabledWake
    \/ CamReadFrame
    \/ CamSendFaceReturns
    \/ CamSendMotionReturns

\* a plausible slip: the frames are taken newest first
TimerFiresNewestFirst(i) ==
    /\ timers[i].pc = "wait"
    /\ timers[i].left = 0
    /\ LET frames_to_save == [j \in 1..Len(cam_queue) |->
                                 cam_queue[Len(cam_queue) + 1 - j]] IN
       IF frames_to_save = <<>>
       THEN /\ timers' = RemoveAt(timers, i)
            /\ UNCHANGED cam_files
       ELSE IF Authorized
       THEN /\ timers' = [timers EXCEPT ![i].pc = "send",
                                        ![i].clip = frames_to_save]
            /\ cam_files' = [cam_files EXCEPT ![VideoPath] = frames_to_save]
       ELSE /\ timers' = RemoveAt(timers, i)
            /\ cam_files' = SendRefused(cam_files, VideoPath)
    /\ UNCHANGED <<program, capVars, cam_queue, monitoring_enabled, detVars,
                   SETTINGS, clock, AUTHORIZED_CHAT_ID>>

\* save_and_send_post_detection_video(cam_name), lines 173-185, run by a
\* Timer thread after its 30 s: an empty buffer ends it; otherwise the
\* buffer is written to the video file and send_alert_video called.
\* list(frame_queues[cam_name]) is one call into the interpreter, which
\* does not switch threads inside it: the copy is one step.
TimerFires(i) ==
    /\ timers[i].pc = "wait"
    /\ timers[i].left = 0
    /\ LET frames_to_save == cam_queue IN
       IF frames_to_save = <<>>
       THEN /\ timers' = RemoveAt(timers, i)
            /\ UNCHANGED cam_files
       ELSE IF Authorized
       THEN /\ timers' = [timers EXCEPT ![i].pc = "send",
                                        ![i].clip = frames_to_save]
            /\ cam_files' = [cam_files EXCEPT ![VideoPath] = frames_to_save]
       ELSE /\ timers' = RemoveAt(timers, i)
            /\ cam_files' = SendRefused(cam_files, VideoPath)
    /\ UNCHANGED <<program, capVars, cam_queue, monitoring_enabled, detVars,
                   SETTINGS, clock, AUTHORIZED_CHAT_ID>>

\* line 185: the send_alert_video of a Timer thread returns and the thread
\* ends
TimerSendReturns(i) ==
    /\ timers[i].pc = "send"
    /\ \E ok \in BOOLEAN :
         cam_files' = SendReturns(cam_files, VideoPath, ok)
    /\ timers' = RemoveAt(timers, i)
    /\ UNCHANGED <<program, capVars, cam_queue, monitoring_enabled, detVars,
                   SETTINGS, clock, AUTHORIZED_CHAT_ID>>

\* one second passes
CamTick ==
    /\ ~(cap_pc \in {"sleep_open", "sleep_reopen", "sleep_disabled"}
         /\ cap_sleep = 0)
    /\ \A i \in 1..Len(timers) : ~(timers[i].pc = "wait" /\ timers[i].left = 0)
    /\ cap_cur # NoCur => cap_cur.elapsed < MaxSendSeconds
    /\ cap_sleep' = IF cap_sleep > 0 THEN cap_sleep - 1 ELSE 0
    /\ cap_cur' = IF cap_cur = NoCur THEN NoCur
                  ELSE [cap_cur EXCEPT !.elapsed = @ + 1]
    /\ since_face' = UpTo(since_face, FACE_COOLDOWN_CAM)
    /\ since_motion' = UpTo(since_motion, MOTION_COOLDOWN)
    /\ timers' = [i \in 1..Len(timers) |->
                     IF timers[i].pc = "wait"
                     THEN [timers[i] EXCEPT !.left = @ - 1] ELSE timers[i]]
    /\ clock' = (clock + 1) % REFRESH_PERIOD
    /\ UNCHANGED <<cap_pc, cam_n, program, cam_queue, monitoring_enabled,
                   background_frames, SETTINGS, cam_files,
                   AUTHORIZED_CHAT_ID>>

---------------------------------------------------------------------------
(* sentinel_pi_bot.py: the persisted registry and the command handlers.
   The registry is kept as the set of thread keys (chat id, camera name)
   it lists.  Handlers run one at a time on the event loop. *)

\* what USER_DATA_FILE can be: absent; text that yaml.safe_load rejects
\* with a yaml.YAMLError; bytes that are not text in the file's encoding,
\* which the read inside yaml.safe_load(f) rejects with a
\* UnicodeDecodeError; or a registry (an empty file loads as None)
FileStates == {"missing", "corrupt", "undecodable", "valid"}

\* load_user_data(), lines 46-53: {} for a missing file (line 47) and for a
\* yaml.YAMLError (lines 51-53), else what the file holds "or {}"; any
\* other exception of open or of the read leaves the function
load_user_data ==
    IF yaml_file.st = "missing" THEN [raised |-> FALSE, data |-> NoCameras]
    ELSE IF yaml_file.st = "corrupt" THEN [raised |-> FALSE, data |-> NoCameras]
    ELSE IF yaml_file.st = "undecodable" THEN [raised |-> TRUE, data |-> NoCameras]
    ELSE [raised |-> FALSE, data |-> yaml_file.data]

\* main(), lines 313-326 (TEST_MODE is False): the registry is loaded and
\* a pipeline started for the camera it lists (at most one here), then the
\* handlers are served; an exception of load_user_data ends the program
main ==
    /\ main_pc = "load"
    /\ LET all_user_data == load_user_data IN
       IF all_user_data.raised
       THEN /\ main_pc' = "crashed"
            /\ UNCHANGED sentinelVars
       ELSE /\ main_pc' = "polling"
            /\ IF all_user_data.data = NoCameras THEN UNCHANGED sentinelVars
               ELSE LET k == CHOOSE x \in DOMAIN all_user_data.data : TRUE
                    IN start_monitoring_thread_from(k, all_user_data.data[k])
    /\ UNCHANGED <<yaml_file, reply>>

\* save_user_data(data), lines 56-61: the file is rewritten, or an
\* exception is printed and the file stays as it was
save_user_data(data, saved) ==
    IF saved THEN [st |-> "valid", data |-> data] ELSE yaml_file

\* an exception that leaves a handler: the library logs it
HandlerRaised == [text |-> "exception"]

\* lines 82-88 of start (TEST_MODE is False): the caller's cameras in the
\* loaded registry, counted as active when their key is in running_threads
StartSummary(chat_id) ==
    LET loaded == load_user_data
        user_cameras == {k \in DOMAIN loaded.data : k[1] = chat_id}
    IN IF loaded.raised THEN HandlerRaised
       ELSE IF user_cameras = {}
       THEN [text |-> "no live cameras", chat |-> chat_id]
       ELSE [text |-> "monitoring", chat |-> chat_id,
             num_active |-> Cardinality({k \in user_cameras : Registered(k)})]

\* a plausible slip: every caller becomes the authorized chat
start_overwrites(chat_id) ==
    /\ main_pc = "polling"
    /\ joining = NoJoin
    /\ AUTHORIZED_CHAT_ID' = chat_id
    /\ reply' = StartSummary(chat_id)
    /\ UNCHANGED <<registryVars, yaml_file, main_pc>>

\* start(update, context), lines 65-88: the first caller becomes the
\* authorized chat; a later caller changes nothing and, unless it is the
\* authorized chat itself, is told so and gets no summary
start(chat_id) ==
    /\ main_pc = "polling"
    /\ joining = NoJoin
    /\ AUTHORIZED_CHAT_ID' = IF AUTHORIZED_CHAT_ID = NoChat THEN chat_id
                             ELSE AUTHORIZED_CHAT_ID
    /\ reply' = IF AUTHORIZED_CHAT_ID \notin {NoChat, chat_id}
                THEN [text |-> "authorized by another user", chat |-> chat_id]
                ELSE StartSummary(chat_id)
    /\ UNCHANGED <<registryVars, yaml_file, main_pc>>

\* add_camera(update, context), lines 91-108, with well-formed arguments:
\* the camera is added to the loaded registry, the registry saved and the
\* pipeline started.  A UnicodeDecodeError of load_user_data is a
\* ValueError, which line 105 answers with the usage text.
add_camera(chat_id, url, name) ==
    LET loaded == load_user_data
        k == ThreadKey(chat_id, name)
    IN
    /\ main_pc = "polling"
    /\ IF loaded.raised
       THEN /\ joining = NoJoin
            /\ reply' = [text |-> "usage", chat |-> chat_id]
            /\ UNCHANGED <<sentinelVars, yaml_file>>
       ELSE /\ \E saved \in BOOLEAN :
                 yaml_file' = save_user_data(
                                 [x \in DOMAIN loaded.data \cup {k} |->
                                     IF x = k THEN url ELSE loaded.data[x]],
                                 saved)
            /\ start_monitoring_thread_from(k, url)
            /\ reply' = [text |-> "added", chat |-> chat_id]
    /\ UNCHANGED main_pc

\* del user_data[chat_id]['cameras'][name]
Without(data, k) == [x \in DOMAIN data \ {k} |-> data[x]]

\* remove_camera(update, context), lines 111-127, with a camera name, up
\* to the join inside stop_monitoring_thread: a camera that the loaded
\* registry does not list is answered "not found"; for one it lists the
\* pipeline is stopped first, which blocks the event loop while it joins.
\* A UnicodeDecodeError of load_user_data is not an IndexError and leaves
\* the handler.
remove_camera_begin(chat_id, name) ==
    LET loaded == load_user_data
        k == ThreadKey(chat_id, name)
    IN /\ main_pc = "polling"
       /\ joining = NoJoin
       /\ IF loaded.raised
          THEN /\ reply' = HandlerRaised
               /\ UNCHANGED <<sentinelVars, yaml_file, main_pc>>
          ELSE IF k \notin DOMAIN loaded.data
          THEN /\ reply' = [text |-> "not found", chat |-> chat_id]
               /\ UNCHANGED <<sentinelVars, yaml_file, main_pc>>
          ELSE IF Registered(k)
          THEN /\ stop_monitoring_thread_begin(k)
               /\ main_pc' = "remove_camera"
               /\ UNCHANGED <<yaml_file, reply>>
          ELSE /\ \E saved \in BOOLEAN :
                    yaml_file' = save_user_data(Without(loaded.data, k), saved)
               /\ reply' = [text |-> "removed", chat |-> chat_id]
               /\ UNCHANGED <<sentinelVars, main_pc>>

\* remove_camera from the return of thread.join on, lines 213-215 and
\* 121-123: the registry entry and the buffer are deleted, the camera is
\* deleted from the registry loaded before the join, and that is saved
remove_camera_end ==
    /\ main_pc = "remove_camera"
    /\ stop_monitoring_thread_end
    /\ LET k == joining.key IN
       /\ \E saved \in BOOLEAN :
             yaml_file' = save_user_data(Without(load_user_data.data, k), saved)
       /\ reply' = [text |-> "removed", chat |-> k[1]]
    /\ main_pc' = "polling"

\* list_cameras(update, context), lines 130-146: every camera of the chat
\* in the loaded registry, with its status
list_cameras(chat_id) ==
    /\ main_pc = "polling"
    /\ joining = NoJoin
    /\ LET loaded == load_user_data
           user_cameras == {k \in DOMAIN loaded.data : k[1] = chat_id}
       IN reply' =
             IF loaded.raised THEN HandlerRaised
             ELSE IF user_cameras = {}
             THEN [text |-> "no cameras", chat |-> chat_id]
             ELSE [text |-> "cameras", chat |-> chat_id,
                   status |-> [k \in user_cameras |->
                                  IF LivePipeline(k) THEN "Active"
                                  ELSE "Inactive"]]
    /\ UNCHANGED <<sentinelVars, yaml_file, main_pc>>

\* a plausible slip: frames_to_save[:num_frames_to_get], the oldest frames
PySliceFirst(frames, n) ==
    SubSeq(frames, 1, IF n >= 0 THEN Min(n, Len(frames))
                      ELSE IF Len(frames) + n > 0 THEN Len(frames) + n ELSE 0)

\* frames[-n:] as Python computes it: the start index -n counts from the
\* end when it is negative (and stops at the first element), from the
\* front when it is not, so that frames[-0:] is the whole list
PySliceLast(frames, n) ==
    LET first == IF -n < 0
                 THEN (IF Len(frames) - n > 0 THEN Len(frames) - n ELSE 0)
                 ELSE Min(-n, Len(frames))
    IN SubSeq(frames, first + 1, Len(frames))

\* record_clip(update, context), lines 168-194, with well-formed arguments:
\* a duration outside 1..60 is refused; for a registered key with frames
\* the buffer is copied, its last seconds * FPS frames written to the
\* record file and sent, and the file removed unless the send raised
record_clip(chat_id, name, seconds) ==
    LET thread_key == ThreadKey(chat_id, name)
        file_path == RecordPath(thread_key)
    IN
    /\ main_pc = "polling"
    /\ joining = NoJoin
    /\ IF ~(0 < seconds /\ seconds <= 60)
       THEN /\ reply' = [text |-> "duration must be between 1 and 60",
                         chat |-> chat_id]
            /\ UNCHANGED files
       ELSE IF thread_key \in DOMAIN running_threads /\ frame_queues[thread_key] # <<>>
       THEN LET frames_to_save == frame_queues[thread_key]
                num_frames_to_get == seconds * FPS
                final_frames == PySliceLast(frames_to_save, num_frames_to_get)
            IN \E sent \in BOOLEAN :
                  IF sent
                  THEN /\ reply' = [text |-> "video", chat |-> chat_id,
                                    seconds |-> seconds, frames |-> final_frames]
                       /\ files' = [files EXCEPT ![file_path] = NoFile]
                  ELSE /\ reply' = HandlerRaised
                       /\ files' = [files EXCEPT ![file_path] = final_frames]
       ELSE /\ reply' = [text |-> "not active or no frames", chat |-> chat_id]
            /\ UNCHANGED files
    /\ UNCHANGED <<running_threads, frame_queues, threads, joining,
                   loop_tasks, AUTHORIZED_CHAT_ID, yaml_file, main_pc>>

---------------------------------------------------------------------------
(* Specifications *)

\* sentinel_pi_bot.py after main() found no user data
SentinelInit ==
    /\ running_threads = <<>>
    /\ frame_queues = <<>>
    /\ threads = <<>>
    /\ joining = NoJoin
    /\ AUTHORIZED_CHAT_ID = NoChat
    /\ files = [p \in Keys \cup {RecordPath(k) : k \in Keys} |-> NoFile]
    /\ loop_tasks = <<>>

\* testing_security_bot.py or secure_bot.py after main() (lines 285-290)
\* has filled the dictionaries; the timestamps of 0 are long ago
CamInit ==
    /\ program \in Programs
    /\ cap_pc = "open"
    /\ cap_sleep = 0
    /\ cap_cur = NoCur
    /\ cam_n = 0
    /\ cam_queue = <<>>
    /\ monitoring_enabled = TRUE
    /\ since_face = FACE_COOLDOWN_CAM + 1
    /\ since_motion = MOTION_COOLDOWN + 1
    /\ background_frames = NoBackground
    /\ SETTINGS = [motion_detection |-> TRUE, motion_threshold |-> MOTION_THRESHOLD]
    /\ cam_files = [p \in CamPaths |-> NoFile]
    /\ timers = <<>>
    /\ clock \in 0..(REFRESH_PERIOD - 1)

\* the fixed-camera programs left out
CamIdle == CamInit /\ program = "testing" /\ clock = 0

\* the command handlers left out
BotIdle == main_pc = "polling" /\ yaml_file = MissingFile /\ reply = NoReply

\* the frame buffer left out
RingIdle == ring = <<>> /\ ring_n = 0 /\ ring_cap = VIDEO_BUFFER_SIZE

Init == SentinelInit /\ RingIdle /\ CamIdle /\ BotIdle

\* sentinel_pi_bot.py: pipelines started and stopped, their capture
\* threads and the alerts they queue, while no chat has sent /start
Next ==
    \/ \E k \in Keys : start_monitoring_thread(k) /\ UNCHANGED <<bufVars, camVars, botVars>>
    \/ \E k \in Keys : stop_monitoring_thread_begin(k) /\ UNCHANGED <<bufVars, camVars, botVars>>
    \/ stop_monitoring_thread_end /\ UNCHANGED <<bufVars, camVars, botVars>>
    \/ \E t \in Tids : video_capture_loop(t) /\ UNCHANGED <<bufVars, camVars, botVars>>
    \/ send_alert_photo_begin /\ UNCHANGED <<bufVars, camVars, botVars>>
    \/ Tick /\ UNCHANGED <<bufVars, camVars, botVars>>

Spec == Init /\ [][Next]_vars

BufInit == SentinelInit /\ RingInit /\ CamIdle /\ BotIdle

BufNext == RingPush /\ UNCHANGED <<sentinelVars, camVars, botVars>>

SpecBuf == BufInit /\ [][BufNext]_vars

CamSpecInit == SentinelInit /\ RingIdle /\ CamInit /\ BotIdle

CamNext ==
    \/ \E c \in CamChats : start_cam(c) /\ UNCHANGED <<registryVars, bufVars, botVars>>
    \/ \E b \in BOOLEAN : setMonitoringEnabled(b) /\ UNCHANGED <<registryVars, bufVars, botVars>>
    \/ video_capture_loop_cam /\ UNCHANGED <<registryVars, bufVars, botVars>>
    \/ \E i \in 1..Len(timers) : TimerFires(i) /\ UNCHANGED <<registryVars, bufVars, botVars>>
    \/ \E i \in 1..Len(timers) : TimerSendReturns(i) /\ UNCHANGED <<registryVars, bufVars, botVars>>
    \/ CamTick /\ UNCHANGED <<registryVars, bufVars, botVars>>

SpecCam == CamSpecInit /\ [][CamNext]_vars

\* the images of SpecMotion: one more, whose difference from the darkest
\* is the threshold itself
MotionLums == Lums \cup {MOTION_THRESHOLD}

\* testing_security_bot.py or secure_bot.py with monitoring left enabled
\* and a classifier that does not fail: the capture thread over three
\* frames, its face and motion alerts and the Timer threads
MotionNext ==
    \/ \E c \in CamChats : start_cam(c) /\ UNCHANGED <<registryVars, bufVars, botVars>>
    \/ (CamOpen \/ CamOpenRetry) /\ UNCHANGED <<registryVars, bufVars, botVars>>
    \/ (CamReadFails \/ CamReopen) /\ UNCHANGED <<registryVars, bufVars, botVars>>
    \/ \E lum \in MotionLums, faces \in {"none", "face"} :
          CamReadFrameBounded(lum, faces, MaxMotionFrames)
          /\ UNCHANGED <<registryVars, bufVars, botVars>>
    \/ CamSendFaceReturns /\ UNCHANGED <<registryVars, bufVars, botVars>>
    \/ \E i \in 1..Len(timers) : TimerFires(i) /\ UNCHANGED <<registryVars, bufVars, botVars>>
    \/ \E i \in 1..Len(timers) : TimerSendReturns(i) /\ UNCHANGED <<registryVars, bufVars, botVars>>
    \/ CamSendMotionReturns /\ UNCHANGED <<registryVars, bufVars, botVars>>
    \/ CamTick /\ UNCHANGED <<registryVars, bufVars, botVars>>

SpecMotion == CamSpecInit /\ [][MotionNext]_vars

\* the buffer of key k after its thread pushed frames 1..n
\* (line 253: frame_queues[thread_key].append(frame), maxlen 1200)
Pushed(t, n) ==
    [i \in 1..Min(n, VIDEO_BUFFER_SIZE) |-> <<t, n - Min(n, VIDEO_BUFFER_SIZE) + i>>]

\* the numbers of frames read that matter to the shortest and the longest
\* clips: up to a little over 2 s worth, and from a little under 59 s worth
ClipLengths ==
    {n \in 0..MaxClipFrames : n <= 2 * FPS + 1 \/ n >= 59 * FPS - 1}

\* sentinel_pi_bot.py with the camera of chat 1 registered, its thread
\* having read some frames, and /record requests arriving
ClipInit ==
    /\ RingIdle /\ CamIdle /\ BotIdle
    /\ joining = NoJoin
    /\ AUTHORIZED_CHAT_ID = NoChat
    /\ loop_tasks = <<>>
    /\ files = [p \in Keys \cup {RecordPath(k) : k \in Keys} |-> NoFile]
    /\ \E n \in ClipLengths :
         LET k == ThreadKey(1, "cam") IN
         /\ threads = <<[NewThread(k) EXCEPT !.pc = "read", !.n = n]>>
         /\ running_threads = [x \in {k} |-> 1]
         /\ frame_queues = [x \in {k} |-> Pushed(1, n)]

\* the durations asked of /record
ClipSeconds == {-1, 0, 1, 2, 59, 60, 61}

ClipNext ==
    \E c \in Chats, n \in Names, seconds \in ClipSeconds :
       record_clip(c, n, seconds) /\ UNCHANGED <<bufVars, camVars>>

SpecClip == ClipInit /\ [][ClipNext]_vars

\* the chats that add cameras
Owners == {1}

\* sentinel_pi_bot.py when main() is about to load the user data: the file
\* is absent, unparsable, undecodable, or lists no camera or one
BotInit ==
    /\ SentinelInit /\ RingIdle /\ CamIdle
    /\ main_pc = "load"
    /\ \/ yaml_file \in [st : FileStates, data : {NoCameras}]
       \/ \E c \in Owners, n \in Names :
             yaml_file = [st |-> "valid",
                          data |-> [x \in {ThreadKey(c, n)} |-> DefaultUrl]]
    /\ reply = NoReply

\* sentinel_pi_bot.py: main's start-up, /start, /add_camera and
\* /list_cameras, the capture threads and the alerts on the event loop
BotNext ==
    \/ main /\ UNCHANGED <<bufVars, camVars>>
    \/ \E c \in Chats : start(c) /\ UNCHANGED <<bufVars, camVars>>
    \/ \E c \in Owners, n \in Names : add_camera(c, DefaultUrl, n) /\ UNCHANGED <<bufVars, camVars>>
    \/ \E c \in Chats : list_cameras(c) /\ UNCHANGED <<bufVars, camVars>>
    \/ \E t \in Tids : video_capture_loop(t) /\ UNCHANGED <<bufVars, camVars, botVars>>
    \/ send_alert_photo_begin /\ UNCHANGED <<bufVars, camVars, botVars>>
    \/ \E i \in 1..Len(loop_tasks) : send_alert_photo_end(i) /\ UNCHANGED <<bufVars, camVars, botVars>>
    \/ Tick /\ UNCHANGED <<bufVars, camVars, botVars>>

SpecBot == BotInit /\ [][BotNext]_vars

---------------------------------------------------------------------------
(* The frame buffer (SpecBuf) *)

\* C1: a frame buffer of capacity C never holds more than C frames, and
\* after N pushes it holds exactly the last min(N, C) pushed frames, in
\* push order.
C1_BufferHoldsLastFrames ==
    /\ Len(ring) <= ring_cap
    /\ Len(ring) = Min(ring_n, ring_cap)
    /\ \A i \in 1..Len(ring) : ring[i] = ring_n - Len(ring) + i

\* the capacity-600 buffer after 600 + MaxOverflow pushes: the first
\* MaxOverflow frames are gone
C1_Overflowed ==
    /\ ring_cap = VIDEO_BUFFER_SIZE_LEGACY
    /\ ring_n = ring_cap + MaxOverflow
    /\ Len(ring) = ring_cap
    /\ ring[1] = MaxOverflow + 1
    /\ ring[Len(ring)] = ring_n

---------------------------------------------------------------------------
(* The pipeline's lifecycle (Spec) *)

\* the capture threads of key k that are alive
LiveThreads(k) == {t \in Tids : threads[t].key = k /\ IsAlive(t)}

\* stop_monitoring_thread has run to its end for thread t: its stop event
\* is set and no join on it is in progress
Released(t) == threads[t].stop /\ joining.tid # t

\* a key is registered exactly when start_monitoring_thread has been
\* called for it since the last stop_monitoring_thread of that key ended

\* C2: a start_monitoring_thread call for an identity that was started
\* before, with no stop in between, creates no thread and leaves exactly one
\* live capture thread for the identity.
C2_SecondStartCreatesNoThread ==
    [][\A k \in Keys :
          (Registered(k) /\ start_monitoring_thread(k))
          => /\ Len(threads') = Len(threads)
             /\ Cardinality(LiveThreads(k)') = 1]_vars

\* C3: once stop_monitoring_thread has deleted the identity's registry
\* entry and frame buffer, the cancelled capture loop has terminated, and it
\* pushes no further frame under that identity's key.
C3_ReleasedAfterStopped ==
    /\ [](\A t \in Tids : Released(t) => ~IsAlive(t))
    /\ [][\A t \in Tids :
             (Released(t) /\ video_capture_loop(t))
             => UNCHANGED frame_queues]_vars

\* C4: a start_monitoring_thread call that follows a finished stop of the
\* same identity registers a new thread and a new empty frame buffer, and
\* the new loop's last_detection_time is 0.
C4_RestartIsFresh ==
    [][\A k \in Keys :
          (/\ ~Registered(k)
           /\ \E t \in Tids : threads[t].key = k /\ Released(t)
           /\ start_monitoring_thread(k))
          => LET new == Len(threads) + 1 IN
             /\ Registered(k)'
             /\ running_threads'[k] = new
             /\ Len(threads') = new
             /\ frame_queues'[k] = <<>>
             /\ threads'[new].key = k
             /\ threads'[new].pc \notin {"done", "crashed"}
             /\ ~threads'[new].stop
             /\ ~threads'[new].detected]_vars

\* a pipeline restarted after the stopped one had detected a face
C4_RestartedAfterDetection ==
    \E k \in Keys : \E t1, t2 \in Tids :
        /\ t1 < t2
        /\ threads[t1].key = k /\ threads[t2].key = k
        /\ Released(t1) /\ threads[t1].detected
        /\ Registered(k) /\ running_threads[k] = t2
        /\ frame_queues[k] = <<>>
        /\ ~threads[t2].detected

\* C5: start_monitoring_thread for a registered, live pipeline leaves the
\* registry entry, the thread with its stop event and the frame buffer as
\* they are; stop_monitoring_thread for an unregistered identity leaves the
\* registry and every frame buffer as they are and blocks in no join.
C5_ConflictsAreNoOps ==
    [][\A k \in Keys :
          /\ (LivePipeline(k) /\ start_monitoring_thread(k))
             => UNCHANGED <<running_threads, frame_queues, threads>>
          /\ (~Registered(k) /\ stop_monitoring_thread_begin(k))
             => UNCHANGED <<running_threads, frame_queues, threads, joining>>]_vars

\* both conflicts can happen here: one identity is live with a frame in
\* its buffer, the other is not registered, and no call is in progress
C5_BothConflictsPossible ==
    \E k1, k2 \in Keys :
        /\ joining = NoJoin
        /\ LivePipeline(k1) /\ frame_queues[k1] # <<>>
        /\ ~Registered(k2)

\* C6: a capture loop whose cancellation has not been requested has not
\* terminated.
C6_NeverExitsOnItsOwn ==
    \A t \in Tids : ~threads[t].stop => IsAlive(t)

\* C7: a cancelled capture loop has reached its end when the 5 seconds of
\* stop_monitoring_thread's join are over.
C7_StoppedWithinJoinTimeout ==
    (joining # NoJoin /\ joining.left = 0) => ~IsAlive(joining.tid)

\* C9: no capture loop is ended by an error of the face detector.
C9_DetectorErrorKeepsStreaming ==
    \A t \in Tids : ~(threads[t].pc = "crashed" /\ threads[t].exc = "detect")

---------------------------------------------------------------------------
(* The fixed-camera programs (SpecCam) *)

\* a frame is read while monitoring is disabled
DisabledRead == ~monitoring_enabled /\ cam_n' = cam_n + 1

C10_ArtifactRemovedAfterSend ==
    [][Authorized
       => /\ CamSendFaceReturns
             => cap_pc' # "send_face" /\ cam_files'[FacePath] = NoFile
          /\ CamSendMotionReturns
             => cap_pc' # "send_motion" /\ cam_files'[MotionPath] = NoFile
          /\ \A i \in 1..Len(timers) :
                TimerSendReturns(i)
                => Len(timers') < Len(timers) /\ cam_files'[VideoPath] = NoFile]_vars

\* C11: with no chat authorized, a send_alert_photo call makes no request
\* to Telegram (no task is left awaiting bot.send_photo) and the file it
\* was given does not exist when it returns.
C11_UnauthorizedSendOnlyCleansUp ==
    [][(send_alert_photo_begin /\ AUTHORIZED_CHAT_ID = NoChat)
       => LET i == CHOOSE x \in Queued : \A y \in Queued : x <= y
              path == loop_tasks[i].path
          IN /\ \A j \in 1..Len(loop_tasks') : loop_tasks'[j].st # "sending"
             /\ Len(loop_tasks') = Len(loop_tasks) - 1
             /\ files'[path] = NoFile]_vars

\* a face was detected, its alert has run with no chat authorized: the
\* task is gone and so is the file the capture thread had written
C11_AlertRefused ==
    /\ AUTHORIZED_CHAT_ID = NoChat
    /\ loop_tasks = <<>>
    /\ \E t \in Tids : /\ threads[t].detected
                       /\ files[DetectedPath(threads[t].key)] = NoFile

\* C12: the authorized chat is set at most once. While it is unset a
\* /start sets it to the caller; once set, no step changes it, whoever
\* calls /start.
C12_FirstAuthorizationWins ==
    [][/\ AUTHORIZED_CHAT_ID # NoChat => AUTHORIZED_CHAT_ID' = AUTHORIZED_CHAT_ID
       /\ \A c \in Chats :
             (start(c) /\ AUTHORIZED_CHAT_ID = NoChat) => AUTHORIZED_CHAT_ID' = c]_vars

\* chat 1 is authorized and chat 2 has called /start after it
C12_SecondCallerRefused ==
    /\ AUTHORIZED_CHAT_ID = 1
    /\ reply = [text |-> "authorized by another user", chat |-> 2]

\* the step raises a face alert: the timestamp is reset and send_alert_photo
\* is called (it blocks the capture thread, or refuses and the Timer starts)
FaceAlertRaised ==
    /\ since_face' = 0
    /\ cap_pc' = "send_face" \/ Len(timers') = Len(timers) + 1

\* the step raises no face alert
NoFaceAlert ==
    /\ since_face' = since_face
    /\ cap_pc' # "send_face"
    /\ timers' = timers
    /\ cam_files'[FacePath] = cam_files[FacePath]

\* C13: a frame showing a face raises a face alert when the previous face
\* alert of the camera is more than the cooldown (30 s) old, and raises
\* none when it is at most that old: of two such frames closer than the
\* cooldown only the first alerts, of two further apart both do.
C13_FaceAlertOncePerCooldown ==
    [][\A lum \in Lums :
          CamReadFrameWith(lum, "face")
          => IF since_face > FACE_COOLDOWN_CAM THEN FaceAlertRaised
             ELSE NoFaceAlert]_vars

\* secure_bot.py: the second frame raises a face alert after the clip of
\* the first alert (frame 1) was sent, which is more than 30 s later
C13_SecondAlertAfterCooldown ==
    /\ program = "secure"
    /\ cap_pc = "send_face"
    /\ cap_cur.frame = 2
    /\ since_face = 0
    /\ cam_files[VideoPath] # NoFile

\* the step raises a motion alert: last_motion_detection_time is set to the
\* frame's time, which no other step does (time only adds to the age)
MotionAlertRaised == since_motion' < since_motion

\* the step reads a frame showing lum and runs the motion test on it
MotionTested(lum) ==
    /\ \E faces \in {"none", "face"} : CamReadFrameBounded(lum, faces, MaxMotionFrames)
    /\ cap_pc' # "send_face"
    /\ SETTINGS.motion_detection
    /\ MotionDue

\* C14: the first frame the motion test sees becomes the background and
\* raises nothing; a later frame whose difference from the background is
\* above the threshold raises a motion alert that carries this frame; and
\* no motion alert is raised within 10 s of the previous one, whatever
\* the frames show.
C14_MotionSeedThenOncePerCooldown ==
    [][/\ MotionAlertRaised
          => /\ background_frames # NoBackground
             /\ since_motion > MOTION_COOLDOWN
             /\ Authorized => /\ cap_pc' = "send_motion"
                              /\ cam_files'[MotionPath] = <<cam_n'>>
       /\ \A lum \in MotionLums :
             MotionTested(lum)
             => IF background_frames = NoBackground
                THEN background_frames' = lum /\ ~MotionAlertRaised
                ELSE Delta(background_frames, lum) > SETTINGS.motion_threshold
                     => MotionAlertRaised]_vars

\* frame 1 became the background, frame 2 differs from it by 6000 > 5000
\* and its motion alert is being sent
C14_SecondFrameAlerts ==
    /\ cap_pc = "send_motion"
    /\ cap_cur.frame = 2
    /\ background_frames = 0
    /\ cap_cur.lum = MOTION_THRESHOLD + 1000
    /\ cam_files[MotionPath] = <<2>>

\* Timer i is that of the camera's latest face detection, so that
\* since_face is the age of its detection
LatestDetection(i) == i = Len(timers) /\ cap_pc # "send_face"

\* C15 as stated: the clip of a face alert fires 30 s after the detection.
C15_ClipFiresThirtySecondsAfterDetection ==
    [][\A i \in 1..Len(timers) : TimerFires(i) => since_face = CLIP_DELAY]_vars

\* C15, amended: a face alert starts exactly one Timer, when its
\* send_alert_photo has returned or refused; the Timer fires 30 s after it
\* was started, which is at least 30 s after the detection, and the clip
\* it writes and sends is the ring buffer as it is when it fires.
C15_ClipThirtySecondsAfterPhotoSent ==
    [][/\ CamSendFaceReturns => Len(timers') = Len(timers) + 1
       /\ Len(timers') > Len(timers)
          => /\ timers' = Append(timers, NewTimer)
             /\ cap_pc = "send_face" \/ since_face' = 0
       /\ \A i \in 1..Len(timers) :
             /\ (timers[i].pc = "wait" /\ LatestDetection(i))
                => since_face + timers[i].left
                      \in CLIP_DELAY..(CLIP_DELAY + MaxSendSeconds)
             /\ TimerFires(i)
                => /\ timers[i].left = 0
                   /\ LatestDetection(i) => since_face >= CLIP_DELAY
                   /\ cam_queue # <<>>
                   /\ Authorized => /\ cam_files'[VideoPath] = cam_queue
                                    /\ timers'[i].clip = cam_queue]_vars

\* the face alert of frame 1 took a second to deliver; its Timer has fired
\* 31 s after the detection, in the second in which frame 2 was read, and
\* sends both frames
C15_ClipHoldsLaterFrame ==
    /\ Len(timers) = 1
    /\ timers[1].pc = "send"
    /\ timers[1].clip = <<1, 2>>
    /\ cap_pc = "send_motion"
    /\ cap_cur.frame = 2
    /\ cap_cur.elapsed = 0
    /\ since_face > CLIP_DELAY

\* frames s[1], s[2], ... are in the order in which they were read
Chronological(s) == \A j \in 1..(Len(s) - 1) : s[j] < s[j + 1]

Extracted(c, n) ==
    IF reply'.text = "video" THEN reply'.frames
    ELSE files'[RecordPath(ThreadKey(c, n))]

\* C17: /record with 1 <= seconds <= 60 on a buffer of L >= 1 frames
\* takes exactly its last min(seconds * 20, L) frames, in order (all L when
\* there are fewer than seconds * 20); a duration outside 1..60 is refused
\* and nothing is taken.
C17_ClipIsLastFrames ==
    [][\A c \in Chats, n \in Names, seconds \in ClipSeconds :
          record_clip(c, n, seconds)
          => LET k == ThreadKey(c, n)
                 q == IF k \in DOMAIN frame_queues THEN frame_queues[k] ELSE <<>>
                 L == Len(q)
                 want == Min(seconds * FPS, L)
                 got == Extracted(c, n)
             IN IF seconds \in 1..60
                THEN (Registered(k) /\ L >= 1)
                     => /\ reply'.text \in {"video", "exception"}
                        /\ Len(got) = want
                        /\ \A j \in 1..want : got[j] = q[L - want + j]
                ELSE /\ reply'.text = "duration must be between 1 and 60"
                     /\ files' = files]_vars

\* the buffer holds 5 frames and one second (20 frames) was asked for: the
\* clip is the 5 frames
C17_ShortBufferGivesAll ==
    /\ reply.text = "video"
    /\ reply.seconds = 1
    /\ Len(frame_queues[ThreadKey(1, "cam")]) = 5
    /\ reply.frames = frame_queues[ThreadKey(1, "cam")]

\* /list_cameras marks a camera active exactly when its key is registered
\* and its thread is alive
ListReportsLiveness ==
    \A c \in Chats :
       (list_cameras(c) /\ reply'.text = "cameras")
       => \A k \in DOMAIN reply'.status :
             reply'.status[k] = "Active" <=> LivePipeline(k)

\* the number of cameras /start calls active is the number of the caller's
\* cameras that are registered with a live thread
StartCountsLiveOnly ==
    \A c \in Chats :
       (start(c) /\ reply'.text = "monitoring")
       => reply'.num_active =
             Cardinality({k \in DOMAIN load_user_data.data : k[1] = c /\ LivePipeline(k)})

\* C18: the status reports (/list_cameras and the summary of /start) call a
\* camera live if and only if its pipeline is registered and its capture
\* thread is alive; a registered camera whose thread has ended is not
\* reported as live.
C18_LiveIffRegisteredAndAlive ==
    [][ListReportsLiveness /\ StartCountsLiveOnly]_vars

\* C19: loading the registry never crashes: whatever state the user data
\* file is in, load_user_data hands its caller a registry (an empty one
\* when the file is missing or cannot be parsed) and the caller goes on;
\* main() is never ended by it.
C19_LoadNeverCrashes ==
    /\ main_pc # "crashed"
    /\ reply # HandlerRaised

\* everything of the cameras other than that of thread t is as it was:
\* registrations, the other threads with their loop position and detection
\* timestamps, the other keys' buffers, alert files and queued alerts
OthersUntouched(t) ==
    LET k == threads[t].key IN
    /\ running_threads' = running_threads
    /\ Len(threads') = Len(threads)
    /\ \A u \in Tids \ {t} : threads'[u] = threads[u]
    /\ DOMAIN frame_queues' = DOMAIN frame_queues
    /\ \A x \in DOMAIN frame_queues \ {k} : frame_queues'[x] = frame_queues[x]
    /\ \A p \in DOMAIN files \ {DetectedPath(k)} : files'[p] = files[p]
    /\ \A i \in 1..Len(loop_tasks) : loop_tasks'[i] = loop_tasks[i]

\* C20: no step of a camera's capture loop, its failures included (the
\* source does not open, the stream drops, the thread is ended by an
\* exception), changes anything of another camera, and none blocks the
\* event loop that serves the commands.
C20_FailureTouchesOwnCameraOnly ==
    [][\A t \in Tids :
          video_capture_loop(t)
          => /\ OthersUntouched(t)
             /\ joining' = joining
             /\ AUTHORIZED_CHAT_ID' = AUTHORIZED_CHAT_ID]_vars

\* one camera's thread was ended by an exception; the other camera is
\* registered, its thread alive, and its frame in its buffer
C20_OtherCameraStreams ==
    \E t, u \in Tids :
       /\ threads[t].pc = "crashed"
       /\ threads[u].key # threads[t].key
       /\ LivePipeline(threads[u].key)
       /\ running_threads[threads[u].key] = u
       /\ threads[u].n = 1
       /\ frame_queues[threads[u].key] = <<(<<u, 1>>)>>

---------------------------------------------------------------------------
(* Reconnection.  Both capture loops run without a stop request: the one
   of sentinel_pi_bot.py for one camera, and the one of
   testing_security_bot.py or secure_bot.py.  A thread that can run does
   run, time passes, and a source that is tried again and again is
   opened at some attempt (it becomes and stays openable). *)

LiveKey == ThreadKey(1, "cam")

\* sentinel_pi_bot.py lines 221-227: cv2.VideoCapture(cam_url) gives an
\* opened capture
OpenSucceeds(t) ==
    /\ t \in Tids
    /\ LoopOpen(t)
    /\ threads'[t].pc = "read"

\* testing_security_bot.py lines 196-203: the capture is opened
CamOpenSucceeds == CamOpen /\ cap_pc' = "read"

\* one second passes for every thread
LiveTick == Tick /\ CamTick

LiveNext ==
    \/ start_monitoring_thread(LiveKey) /\ UNCHANGED <<bufVars, camVars, botVars>>
    \/ \E t \in Tids : video_capture_loop(t) /\ UNCHANGED <<bufVars, camVars, botVars>>
    \/ send_alert_photo_begin /\ UNCHANGED <<bufVars, camVars, botVars>>
    \/ (CamOpen \/ CamOpenRetry) /\ UNCHANGED <<registryVars, bufVars, botVars>>
    \/ (CamReadFails \/ CamReopen) /\ UNCHANGED <<registryVars, bufVars, botVars>>
    \/ CamReadFrameBounded(0, "none", MaxFrames) /\ UNCHANGED <<registryVars, bufVars, botVars>>
    \/ LiveTick /\ UNCHANGED <<bufVars, botVars>>

LiveFairness ==
    /\ WF_vars(LiveTick /\ UNCHANGED <<bufVars, botVars>>)
    /\ WF_vars(\E t \in Tids : (LoopOpenRetry(t) \/ LoopReadRetry(t))
                                 /\ UNCHANGED <<bufVars, camVars, botVars>>)
    /\ SF_vars(\E t \in Tids : OpenSucceeds(t) /\ UNCHANGED <<bufVars, camVars, botVars>>)
    /\ WF_vars((CamOpenRetry \/ CamReopen) /\ UNCHANGED <<registryVars, bufVars, botVars>>)
    /\ SF_vars(CamOpenSucceeds /\ UNCHANGED <<registryVars, bufVars, botVars>>)

SpecLive == Init /\ [][LiveNext]_vars /\ LiveFairness

\* the capture loop of thread t is between streams: opening the source,
\* waiting to open it again, or pausing after a read that gave no frame
Connecting(t) ==
    t \in Tids /\ threads[t].pc \in {"open", "sleep_open", "sleep_read"}

Streaming(t) == t \in Tids /\ threads[t].pc = "read"

\* what a capture loop does between streams: an open that fails starts the
\* backoff wait, a read that gives no frame starts the pause, and a wait or
\* pause ends, once its time is over, in another open attempt
ReconnectSteps ==
    /\ \A t \in Tids :
          LET old == threads[t]
              new == threads'[t]
          IN /\ old.pc = "open" /\ new.pc # "open" =>
                   \/ new.pc = "read"
                   \/ new.pc = "sleep_open" /\ new.sleep = OPEN_RETRY_SLEEP
             /\ old.pc = "read" /\ new.pc \in {"open", "sleep_open", "sleep_read"} =>
                   new.pc = "sleep_read" /\ new.sleep = READ_RETRY_SLEEP
             /\ old.pc \in {"sleep_open", "sleep_read"} /\ new.pc # old.pc =>
                   old.sleep = 0 /\ new.pc = "open"
    /\ cap_pc = "open" /\ cap_pc' # "open" =>
          \/ cap_pc' = "read"
          \/ cap_pc' = "sleep_open" /\ cap_sleep' = OPEN_RETRY_SLEEP_CAM
    /\ cap_pc = "read" /\ cap_pc' \in {"open", "sleep_open", "sleep_reopen"} =>
          cap_pc' = "sleep_reopen" /\ cap_sleep' = REOPEN_SLEEP
    /\ cap_pc \in {"sleep_open", "sleep_reopen"} /\ cap_pc' # cap_pc =>
          cap_sleep = 0 /\ cap_pc' = "open"

EvaluatedAtRefresh(lum) ==
    /\ \E faces \in {"none", "face"} : CamReadFrameBounded(lum, faces, MaxMotionFrames)
    /\ clock = 0
    /\ cap_pc' = "read"
    /\ background_frames # NoBackground

\* C22: a frame evaluated in a refresh second replaces the background
\* reference, whatever the detection outcome and also within the 10 s
\* after a motion alert.
C22_BackgroundRefreshedEveryPeriod ==
    [][\A lum \in MotionLums :
          EvaluatedAtRefresh(lum) => background_frames' = lum]_vars

\* C23: the evaluation of a frame that raised a motion alert leaves the
\* background reference as it was.
C23_AlertFrameNotInstalled ==
    [][(MotionAlertRaised \/ cap_pc = "send_motion") /\ cap_pc' = "read"
          => background_frames' = background_frames]_vars

\* the frames of buffer q were all pushed by thread tid, in the order it
\* read them
SingleStream(q, tid) ==
    /\ \A j \in 1..Len(q) : q[j][1] = tid
    /\ \A j \in 1..(Len(q) - 1) : q[j][2] < q[j + 1][2]

\* C24: whatever start_monitoring_thread and stop_monitoring_thread calls
\* and capture-loop steps have happened, a key has at most one live capture
\* thread, and the frames in its buffer were pushed by the registered
\* thread alone, in capture order.
C24_OneLoopOneStreamPerIdentity ==
    \A k \in Keys :
       /\ Cardinality(LiveThreads(k)) <= 1
       /\ k \in DOMAIN running_threads /\ k \in DOMAIN frame_queues
             => SingleStream(frame_queues[k], running_threads[k])

---------------------------------------------------------------------------
(* Alerts in flight.  sentinel_pi_bot.py with one camera whose detector
   does not fail and a chat that may send /start: the capture thread
   over two frames, and the send_alert_photo coroutines its detections
   queue on the event loop. *)

AlertNext ==
    \/ \E c \in Owners : start(c) /\ UNCHANGED <<bufVars, camVars>>
    \/ start_monitoring_thread(LiveKey) /\ UNCHANGED <<bufVars, camVars, botVars>>
    \/ \E t \in Tids : (LoopOpen(t) \/ LoopOpenRetry(t)) /\ UNCHANGED <<bufVars, camVars, botVars>>
    \/ \E t \in Tids : (LoopReadFails(t) \/ LoopReadRetry(t)) /\ UNCHANGED <<bufVars, camVars, botVars>>
    \/ \E t \in Tids : LoopReadNoFaceBounded(t, MaxAlertFrames) /\ UNCHANGED <<bufVars, camVars, botVars>>
    \/ \E t \in Tids : LoopReadFaceBounded(t, MaxAlertFrames, MaxAlerts) /\ UNCHANGED <<bufVars, camVars, botVars>>
    \/ send_alert_photo_begin /\ UNCHANGED <<bufVars, camVars, botVars>>
    \/ \E i \in 1..Len(loop_tasks) : send_alert_photo_end(i) /\ UNCHANGED <<bufVars, camVars, botVars>>
    \/ Tick /\ UNCHANGED <<bufVars, camVars, botVars>>

SpecAlert == Init /\ [][AlertNext]_vars

\* C25: when a queued send_alert_photo starts, the file at its path holds
\* the frame that was written for its own detection.
C25_DeliveryFindsOwnFrame ==
    [][send_alert_photo_begin
          => LET i == CHOOSE x \in Queued : \A y \in Queued : x <= y
             IN files[loop_tasks[i].path] = loop_tasks[i].frame]_vars

---------------------------------------------------------------------------
(* The registry and the pipelines.  sentinel_pi_bot.py from start-up on,
   with /add_camera and /remove_camera of one owner and the capture
   threads they start and stop. *)

RegistryNext ==
    \/ main /\ UNCHANGED <<bufVars, camVars>>
    \/ \E c \in Owners, n \in Names : add_camera(c, DefaultUrl, n) /\ UNCHANGED <<bufVars, camVars>>
    \/ \E c \in Owners, n \in Names : remove_camera_begin(c, n) /\ UNCHANGED <<bufVars, camVars>>
    \/ remove_camera_end /\ UNCHANGED <<bufVars, camVars>>
    \/ \E t \in Tids : video_capture_loop(t) /\ UNCHANGED <<bufVars, camVars, botVars>>
    \/ send_alert_photo_begin /\ UNCHANGED <<bufVars, camVars, botVars>>
    \/ Tick /\ UNCHANGED <<bufVars, camVars, botVars>>

SpecRegistry == BotInit /\ [][RegistryNext]_vars

\* the cameras that load_user_data finds in USER_DATA_FILE
Persisted == DOMAIN load_user_data.data

\* C26: once start-up is over and while no /remove_camera is in progress,
\* the keys with a registered pipeline are the cameras of the persisted
\* registry.
C26_RegisteredIffPersisted ==
    main_pc = "polling" => DOMAIN running_threads = Persisted

---------------------------------------------------------------------------
(* The url of a camera.  sentinel_pi_bot.py from start-up on, with
   /add_camera of one owner for either url, and the capture threads. *)

UrlNext ==
    \/ main /\ UNCHANGED <<bufVars, camVars>>
    \/ \E c \in Owners, u \in Urls, n \in Names : add_camera(c, u, n) /\ UNCHANGED <<bufVars, camVars>>
    \/ \E t \in Tids : video_capture_loop(t) /\ UNCHANGED <<bufVars, camVars, botVars>>
    \/ send_alert_photo_begin /\ UNCHANGED <<bufVars, camVars, botVars>>
    \/ Tick /\ UNCHANGED <<bufVars, camVars, botVars>>

SpecUrl == BotInit /\ [][UrlNext]_vars

\* C27: when /add_camera has answered "added", a live pipeline of the
\* camera captures from the url that the registry file now holds for it.
C27_PipelineCapturesPersistedUrl ==
    [][\A c \in Owners, u \in Urls, n \in Names :
          LET k == ThreadKey(c, n) IN
          (/\ add_camera(c, u, n)
           /\ reply'.text = "added"
           /\ yaml_file'.st = "valid"
           /\ k \in DOMAIN yaml_file'.data
           /\ k \in DOMAIN running_threads'
           /\ threads'[running_threads'[k]].pc \notin {"done", "crashed"})
          => threads'[running_threads'[k]].url = yaml_file'.data[k]]_vars

\* C28: while no stop_monitoring_thread is waiting in its join (and no
\* start_monitoring_thread is running, which takes one step), the keys of
\* running_threads are the keys of frame_queues.
C28_RegistryAndBuffersAgree ==
    joining = NoJoin => DOMAIN running_threads = DOMAIN frame_queues

\* one pipeline has been stopped and its entries deleted while another one
\* is registered with its buffer
C28_OneStoppedOneRegistered ==
    /\ joining = NoJoin
    /\ DOMAIN running_threads # {}
    /\ \E t \in Tids :
          /\ threads[t].stop
          /\ threads[t].key \notin DOMAIN running_threads
          /\ threads[t].key \notin DOMAIN frame_queues

====
